---- MODULE Spec2Model ----
(***************************************************************************)
(* A model of the PC/SC FFI binding (src/src/deno-pcsc-ffi/pcsc-ffi.ts:    *)
(* the native wrappers, the asynchronous SCardGetStatusChange and the      *)
(* FFICard session) and of the ISO7816 APDU encoder it uses                *)
(* (src/src/iso7816/apdu.ts).                                              *)
(*                                                                         *)
(* The native resource manager is the environment: every native call       *)
(* returns a status code drawn from NativeCodes and, on success, output    *)
(* drawn from small sets.                                                  *)
(***************************************************************************)
EXTENDS Integers, Sequences, FiniteSets, TLC

(***************************************************************************)
(* Bounds of the model.                                                    *)
(***************************************************************************)
\* number of ReaderState objects that can be watched
MaxReaders == 2
\* number of concurrent callers of SCardGetStatusChange
MaxTasks == 2
\* number of resource-manager contexts
MaxContexts == 1
\* expectedLen arguments of FFICard.transmit are 0..MaxExpectedLen, or absent
MaxExpectedLen == 2
\* dataOut / attrib buffers of SCardControl / SCardGetAttrib have 0..MaxOutLen bytes
MaxOutLen == 1

(***************************************************************************)
(* Program constants.                                                      *)
(***************************************************************************)
\* Native status codes are 32-bit words; the model writes them as the signed
\* value of the same 32 bits (0x8010000A is 2148532234 - 2^32).
\* pcsc.ts (imported pcsc-ffi.ts:12): the native "timeout" status code, 0x8010000A
SCARD_ERROR_TIMEOUT == -2146435062
\* the native status code of a wait ended by SCardCancel, 0x80100002
SCARD_E_CANCELLED == -2146435070
\* some other native failure, 0x80100003
SCARD_E_INVALID_HANDLE == -2146435069
\* pcsc.ts (imported pcsc-ffi.ts:6): bytes of a DWORD field
DWORD_SIZE == 4
\* FFICard.transmit: expectedLen ?? 256
DefaultExpectedLen == 256
\* reader-state.ts (imported pcsc-ffi.ts:19): cells of one reader-state record.
\* The model's record is <<currentState, eventState>>, one cell per field.
SCARDREADERSTATE_SIZE == 2

\* pcsc.ts INFINITE: the timeout of a wait that never times out, 0xFFFFFFFF
INFINITE == -1

\* what a synchronous native call may return
NativeCodes == {0, SCARD_E_INVALID_HANDLE}
\* what the native GetStatusChange may return
WaitCodes == NativeCodes \cup {SCARD_ERROR_TIMEOUT, SCARD_E_CANCELLED}

Readers == 1..MaxReaders
Tasks == 1..MaxTasks
Contexts == 1..MaxContexts
\* the non-zero card handle a successful SCardConnect returned
CardHandles == {7}
\* Protocol values negotiated by the native layer
Protocols == {0, 1, 2}
\* reader event bitmasks the native layer reports (Empty, Present)
StateFlags == {16, 32}

(***************************************************************************)
(* Helpers: JavaScript typed-array and DataView primitives.                *)
(***************************************************************************)
Min(a, b) == IF a < b THEN a ELSE b

\* Array.prototype.slice(start, end) for 0 <= start, 0 <= end (0-based, end
\* exclusive); empty when start >= end.
Slice(s, start, end) == SubSeq(s, start + 1, Min(end, Len(s)))

\* new Uint8Array(n)
Zeros(n) == [i \in 1..n |-> 0]

\* DataView.setUint32(0, v, littleEndian) on a 4-byte buffer
SetUint32(v, littleEndian) ==
  LET b0 == v % 256
      b1 == (v \div 256) % 256
      b2 == (v \div 65536) % 256
      b3 == (v \div 16777216) % 256
  IN  IF littleEndian THEN <<b0, b1, b2, b3>> ELSE <<b3, b2, b1, b0>>

\* DataView.getUint32(0, littleEndian)
GetUint32(b, littleEndian) ==
  IF littleEndian
    THEN b[1] + 256 * b[2] + 65536 * b[3] + 16777216 * b[4]
    ELSE b[4] + 256 * b[3] + 65536 * b[2] + 16777216 * b[1]

\* An optional value: <<>> is undefined, <<v>> is v.   x ?? d
OrElse(opt, d) == IF opt = <<>> THEN d ELSE opt[1]

(***************************************************************************)
(* ISO7816 APDUs (apdu.ts).  A CommandAPDU is a record                     *)
(* [cla, ins, p1, p2, data, le, isExtended] whose data and le are          *)
(* optional values.                                                        *)
(***************************************************************************)
\* an encoder that never takes the protocol for T=0
IsT0_Never(protocolOpt) == FALSE

\* CommandAPDU.toBytes: isT0 = (options?.protocol ?? 1) == 0
IsT0(protocolOpt) == OrElse(protocolOpt, 1) = 0

\* CommandAPDU.toBytes(options): options.protocol is optional
toBytes(apdu, protocolOpt) ==
  LET isT0 == IsT0(protocolOpt)
      lc == IF apdu.data = <<>> THEN 0 ELSE Len(apdu.data[1])
      isExtended == apdu.isExtended /\ ~isT0
      le == IF lc = 0 \/ ~isT0 THEN OrElse(apdu.le, 0) ELSE 0
      LengthField(n) ==
        IF isExtended THEN <<0, (n \div 256) % 256, n % 256>> ELSE <<n % 256>>
  IN  <<apdu.cla % 256, apdu.ins % 256, apdu.p1 % 256, apdu.p2 % 256>>
        \o (IF lc > 0 THEN LengthField(lc) \o apdu.data[1] ELSE <<>>)
        \o (IF le > 0 THEN LengthField(le) ELSE <<>>)

\* a decoder that reads the status word as a little-endian 16-bit value
ResponseAPDU_LittleEndian(bytes) ==
  IF Len(bytes) < 2
    THEN [ok |-> FALSE, SW |-> 0, data |-> <<>>]
    ELSE LET la == Len(bytes) - 2
         IN  [ok |-> TRUE,
              SW |-> bytes[la + 1] + 256 * bytes[la + 2],
              data |-> Slice(bytes, 0, la)]

\* new ResponseAPDU(bytes): [ok, SW, data]; ok = FALSE is the SmartCardException
ResponseAPDU(bytes) ==
  IF Len(bytes) < 2
    THEN [ok |-> FALSE, SW |-> 0, data |-> <<>>]
    ELSE LET la == Len(bytes) - 2
         IN  [ok |-> TRUE,
              SW |-> 256 * bytes[la + 1] + bytes[la + 2],
              data |-> Slice(bytes, 0, la)]

(***************************************************************************)
(* Inputs of the card session.                                             *)
(***************************************************************************)
\* raw command buffers given to FFICard.transmit
Commands == {<<0, 164, 4, 0>>, <<0, 176, 0, 0, 2>>}
\* expectedLen arguments (optional)
ExpectedLens == {<<>>} \cup {<<n>> : n \in 0..MaxExpectedLen}
\* CommandAPDU objects given to FFICard.transmitAPDU
Apdus ==
  { [cla |-> 0, ins |-> 164, p1 |-> 4, p2 |-> 0, data |-> <<>>, le |-> <<>>,
     isExtended |-> FALSE],
    [cla |-> 0, ins |-> 176, p1 |-> 0, p2 |-> 0, data |-> <<>>, le |-> <<2>>,
     isExtended |-> FALSE],
    [cla |-> 0, ins |-> 214, p1 |-> 0, p2 |-> 0, data |-> << <<1, 2>> >>,
     le |-> <<1>>, isExtended |-> TRUE] }
\* what a card may answer to a transmit
Responses == {<<144>>, <<144, 0>>, <<1, 2, 144, 0>>, <<1, 2, 3, 4, 5, 6, 144, 0>>}

(***************************************************************************)
(* State.                                                                  *)
(***************************************************************************)
VARIABLES
  isWin,          \* pcsc.ts isWin: the platform, fixed for a run
  handle,         \* FFICard.#handle
  protocol,       \* FFICard.#protocol
  inTransaction,  \* native side: a transaction is begun on the card's handle and not ended
  discOutcome,    \* history: "none", or how the native call of a disconnect ended
  readerStatus,   \* FFIReader.status, the status the reader last read
  negotiated,     \* history: the protocol the native layer last negotiated, and by which call
  codec,          \* the last APDU codec operation: its input and its result
  call,           \* the last synchronous call: what it did and how it ended
  readerBuf,      \* SCARDREADERSTATE_FFI.buffer of each reader-state object
  task            \* the callers of SCardGetStatusChange

vars ==
  <<isWin, handle, protocol, inTransaction, discOutcome, readerStatus,
    negotiated, codec, call, readerBuf, task>>
cardVars ==
  <<handle, protocol, inTransaction, discOutcome, readerStatus, negotiated>>
monitorVars == <<readerBuf, task>>

\* no codec operation yet
NoCodec == [op |-> "none"]

\* no exception thrown
NoErr == [exc |-> "none", code |-> 0, func |-> ""]

\* what a call that has not happened records
NoCall ==
  [op |-> "none", hBefore |-> 0, pBefore |-> 0, L |-> 0, inTx |-> FALSE,
   apdu |-> <<>>, native |-> <<>>, err |-> NoErr, ret |-> <<>>,
   waited |-> FALSE, promise |-> "none"]

\* one invocation of a native function pcsc.symbols.<fn>
Native(fn, h, rc) ==
  [fn |-> fn, h |-> h, send |-> <<>>, bufLen |-> 0, lenField |-> 0, rc |-> rc,
   k |-> 0, recv |-> <<>>]

\* a call of a method of the card, before it has done anything
CardCall(op) ==
  [NoCall EXCEPT !.op = op, !.hBefore = handle, !.pBefore = protocol,
                 !.inTx = inTransaction]

\* throw new SmartCardException(...)
SmartCardException == [exc |-> "SmartCardException", code |-> 0, func |-> ""]
\* a RangeError thrown by a DataView access outside its buffer
RangeError == [exc |-> "RangeError", code |-> 0, func |-> ""]

ensureSCardSuccess(rc, func) ==
  IF rc # 0 THEN [exc |-> "PCSCException", code |-> rc, func |-> func] ELSE NoErr

(***************************************************************************)
(* SCardTransmit(hCard, sendBuffer, recvLength).  The native layer answers *)
(* rc and, on success, the response resp: it reads the length field as a   *)
(* little-endian DWORD, copies resp into the receive buffer and writes     *)
(* Len(resp) back into the length field.                                   *)
(***************************************************************************)
\* the capacity the native layer reads from the length field
TransmitCapacity(recvLength) ==
  GetUint32(SetUint32(recvLength + 2, isWin), TRUE)

SCardTransmit(hCard, sendBuffer, recvLength, rc, resp) ==
  LET recvBuffer == Zeros(recvLength + 2)
      length == SetUint32(Len(recvBuffer), isWin)
      lengthOut == IF rc = 0 THEN SetUint32(Len(resp), TRUE) ELSE length
      bufferOut ==
        IF rc = 0
          THEN [i \in 1..Len(recvBuffer) |-> IF i <= Len(resp) THEN resp[i] ELSE 0]
          ELSE recvBuffer
      k == GetUint32(lengthOut, TRUE)
  IN  [native |-> <<[fn |-> "SCardTransmit", h |-> hCard, send |-> sendBuffer,
                     bufLen |-> Len(recvBuffer),
                     lenField |-> GetUint32(length, TRUE), rc |-> rc,
                     k |-> IF rc = 0 THEN k ELSE 0, recv |-> bufferOut]>>,
       err |-> ensureSCardSuccess(rc, "SCardTransmit"),
       ret |-> IF rc = 0 THEN Slice(bufferOut, 0, k) ELSE <<>>]

\* the native layer succeeds only with a response that fits the capacity it
\* read; a failed call carries no response
NativeTransmitCan(recvLength, rc, resp) ==
  IF rc = 0 THEN Len(resp) <= TransmitCapacity(recvLength) ELSE resp = <<144, 0>>

\* reader.waitForChange() (reader.ts): re-reads the reader status; its promise
\* resolves or rejects
ReaderWaitForChange(c, outcome) ==
  [c EXCEPT !.waited = TRUE, !.promise = outcome]

\* the status reader.waitForChange() leaves in reader.status, h being the
\* card's handle when it is called: re-read when the promise resolves
\* ("connected" while a card handle is open on the reader, "present" once it
\* is closed), kept when it rejects
StatusReRead(h, outcome) ==
  IF outcome = "resolved" THEN (IF h # 0 THEN "connected" ELSE "present")
  ELSE readerStatus

(***************************************************************************)
(* FFICard                                                                 *)
(***************************************************************************)
\* a guard that never holds
NotConnected_Never(h) == FALSE

\* !this.#handle
NotConnected(h) == h = 0

\* a finally block that clears only when the native call did not throw
DisconnectFinally_OnSuccessOnly(threw) ==
  IF threw THEN [handle |-> handle, protocol |-> protocol]
  ELSE [handle |-> 0, protocol |-> 0]

\* FFICard.disconnect, finally { this.#protocol = 0; this.#handle = 0 }: runs
\* whether or not native.SCardDisconnect threw
DisconnectFinally(threw) == [handle |-> 0, protocol |-> 0]

\* get isConnected(): return this.reader.status != "connected"
isConnected == readerStatus # "connected"

\* FFICard.transmit(command, expectedLen)
Transmit ==
  \E command \in Commands, expectedLen \in ExpectedLens,
     rc \in NativeCodes, resp \in Responses :
    LET L == OrElse(expectedLen, DefaultExpectedLen)
        c == [CardCall("transmit") EXCEPT !.L = L]
    IN  /\ IF NotConnected(handle)
             THEN call' = [c EXCEPT !.err = SmartCardException]
             ELSE LET r == SCardTransmit(handle, command, 2 + L, rc, resp)
                  IN  /\ NativeTransmitCan(2 + L, rc, resp)
                      /\ call' = [c EXCEPT !.native = r.native, !.err = r.err,
                                           !.ret = r.ret]
        /\ UNCHANGED <<isWin, codec, cardVars, monitorVars>>

\* options that leave the protocol out
EncodingOptions_NoProtocol(p) == <<>>

\* FFICard.transmitAPDU: the options { protocol: this.#protocol } of toBytes
EncodingOptions(p) == <<p>>

\* FFICard.transmitAPDU(commandAPDU)
TransmitAPDU ==
  \E apdu \in Apdus, rc \in NativeCodes, resp \in Responses :
    LET L == OrElse(apdu.le, 0)
        c == [CardCall("transmitAPDU") EXCEPT !.L = L, !.apdu = <<apdu>>]
        commandBytes == toBytes(apdu, EncodingOptions(protocol))
        r == SCardTransmit(handle, commandBytes, 2 + L, rc, resp)
    IN  /\ NativeTransmitCan(2 + L, rc, resp)
        /\ call' = [c EXCEPT !.native = r.native,
                             !.err = IF r.err # NoErr THEN r.err
                                     ELSE IF ResponseAPDU(r.ret).ok THEN NoErr
                                     ELSE SmartCardException,
                             !.ret = r.ret]
        /\ UNCHANGED <<isWin, codec, cardVars, monitorVars>>

\* FFICard.reconnect(shareMode, preferredProtocols, initialization)
Reconnect ==
  \E rc \in NativeCodes, newProtocol \in Protocols,
     outcome \in {"resolved", "rejected"} :
    LET c == CardCall("reconnect")
        n == <<Native("SCardReconnect", handle, rc)>>
    IN  /\ IF NotConnected(handle)
             THEN /\ call' = [c EXCEPT !.err = SmartCardException]
                  /\ UNCHANGED <<protocol, readerStatus, negotiated>>
             ELSE IF rc # 0
                    THEN /\ call' = [c EXCEPT !.native = n,
                                 !.err = ensureSCardSuccess(rc, "SCardReconnect")]
                         /\ UNCHANGED <<protocol, readerStatus, negotiated>>
                    ELSE /\ protocol' = newProtocol
                         /\ negotiated' = [protocol |-> newProtocol,
                                           by |-> "SCardReconnect"]
                         /\ call' = ReaderWaitForChange([c EXCEPT !.native = n],
                                                        outcome)
                         /\ readerStatus' = StatusReRead(handle, outcome)
        /\ UNCHANGED <<isWin, codec, handle, inTransaction, discOutcome, monitorVars>>

\* FFICard.disconnect(disposition)
Disconnect ==
  \E rc \in NativeCodes, outcome \in {"resolved", "rejected"} :
    LET c == CardCall("disconnect")
        n == <<Native("SCardDisconnect", handle, rc)>>
    IN  /\ IF ~NotConnected(handle)
             THEN \* try { native.SCardDisconnect } finally { clear }
                  /\ protocol' = DisconnectFinally(rc # 0).protocol
                  /\ handle' = DisconnectFinally(rc # 0).handle
                  /\ discOutcome' = IF rc = 0 THEN "ok" ELSE "error"
                  /\ inTransaction' = IF rc = 0 THEN FALSE ELSE inTransaction
                  /\ call' = IF rc # 0
                               THEN [c EXCEPT !.native = n,
                                  !.err = ensureSCardSuccess(rc, "SCardDisconnect")]
                               ELSE ReaderWaitForChange([c EXCEPT !.native = n],
                                                        outcome)
                  /\ readerStatus' = IF rc # 0 THEN readerStatus
                                     ELSE StatusReRead(0, outcome)
             ELSE /\ call' = ReaderWaitForChange(c, outcome)
                  /\ readerStatus' = StatusReRead(handle, outcome)
                  /\ UNCHANGED <<handle, protocol, inTransaction, discOutcome>>
        /\ UNCHANGED <<isWin, codec, negotiated, monitorVars>>

(***************************************************************************)
(* Reader-state monitor: SCardGetStatusChange.                             *)
(*                                                                         *)
(* A caller t is "idle", then "native" (the nonblocking native call is     *)
(* issued and has not returned), then "returned" (the native call has      *)
(* returned, the awaiting continuation has not run yet), then "done".      *)
(***************************************************************************)
\* cells of a reader-state record (0-based offsets in the record)
CURRENT_STATE == 0
EVENT_STATE == 1

\* timeout arguments
Timeouts == {0, INFINITE}

NoResult == [kind |-> "none", changed |-> <<>>, err |-> NoErr]

IdleTask ==
  [pc |-> "idle", ctx |-> 0, timeout |-> 0, m |-> 0, inBuf |-> <<>>,
   stateBuffer |-> <<>>, res |-> 0, cancelled |-> FALSE, cancelCalled |-> FALSE,
   result |-> NoResult]

\* a call that has completed: its arguments and its locals are gone
Completed(T, result) ==
  [T EXCEPT !.pc = "done", !.ctx = 0, !.inBuf = <<>>, !.stateBuffer = <<>>,
            !.result = result]

\* lines 468-477: stateBuffer.set(state.buffer, index * SCARDREADERSTATE_SIZE)
\* for the states 1..m, in order
Marshal(m) ==
  [j \in 1..(m * SCARDREADERSTATE_SIZE) |->
     readerBuf[((j - 1) \div SCARDREADERSTATE_SIZE) + 1]
              [((j - 1) % SCARDREADERSTATE_SIZE) + 1]]

\* the record of the state at `index` (0-based) in a packed buffer
RecordAt(buffer, index) ==
  SubSeq(buffer, index * SCARDREADERSTATE_SIZE + 1,
         (index + 1) * SCARDREADERSTATE_SIZE)

\* lines 507-510: stateBuffer.slice(index * SCARDREADERSTATE_SIZE, SCARDREADERSTATE_SIZE)
HandledSlice(buffer, index) ==
  Slice(buffer, index * SCARDREADERSTATE_SIZE, SCARDREADERSTATE_SIZE)

\* SCARDREADERSTATE.handleChange(bytes) (reader-state.ts): refreshes the state
\* from its record and tells whether the event bitmask changed.  Given fewer
\* bytes than a record it has no record to read: the state is left as it is and
\* the answer is either one (guess).
handleChange(buffer, bytes, guess) ==
  IF Len(bytes) = SCARDREADERSTATE_SIZE
    THEN [changed |-> bytes[EVENT_STATE + 1] # buffer[EVENT_STATE + 1],
          buffer |-> bytes]
    ELSE [changed |-> guess, buffer |-> buffer]

\* lines 463-491: marshal the states and issue the native call
GetStatusChangeCall(t) ==
  /\ task[t].pc \in {"idle", "done"}
  /\ \E hContext \in Contexts, timeout \in Timeouts, m \in 1..MaxReaders :
       task' = [task EXCEPT ![t] =
                  [IdleTask EXCEPT !.pc = "native", !.ctx = hContext,
                                   !.timeout = timeout, !.m = m,
                                   !.inBuf = Marshal(m),
                                   !.stateBuffer = Marshal(m)]]
  /\ UNCHANGED <<isWin, codec, cardVars, call, readerBuf>>

\* the native layer ends the call: with the cancellation code if and only if
\* the wait was cancelled, with the timeout code only if the timeout is finite;
\* on success it writes each record's event bitmask
NativeGetStatusChange(t) ==
  /\ task[t].pc = "native"
  /\ \E rc \in WaitCodes, out \in [1..task[t].m -> StateFlags] :
       /\ task[t].cancelled <=> rc = SCARD_E_CANCELLED
       /\ rc = SCARD_ERROR_TIMEOUT => task[t].timeout # INFINITE
       /\ rc # 0 => out = [i \in 1..task[t].m |-> 16]
       /\ task' = [task EXCEPT ![t] =
            [@ EXCEPT !.pc = "returned", !.res = rc, !.timeout = 0,
               !.stateBuffer =
                 IF rc # 0 THEN @
                 ELSE [j \in 1..Len(@) |->
                         IF (j - 1) % SCARDREADERSTATE_SIZE = EVENT_STATE
                           THEN out[((j - 1) \div SCARDREADERSTATE_SIZE) + 1]
                           ELSE @[j]]]]
  /\ UNCHANGED <<isWin, codec, cardVars, call, readerBuf>>

\* a continuation without the special case of the timeout code
WaitOutcome_TimeoutIsError(res, changed) ==
  IF res # 0
    THEN [NoResult EXCEPT !.kind = "error",
                          !.err = ensureSCardSuccess(res, "SCardGetStatusChange")]
    ELSE [NoResult EXCEPT !.kind = "states", !.changed = changed]

\* a continuation that takes the cancellation code for "no change" too
WaitOutcome_CancelIsEmpty(res, changed) ==
  IF res \in {SCARD_ERROR_TIMEOUT, SCARD_E_CANCELLED}
    THEN [NoResult EXCEPT !.kind = "states"]
    ELSE IF res # 0
      THEN [NoResult EXCEPT !.kind = "error",
                            !.err = ensureSCardSuccess(res, "SCardGetStatusChange")]
      ELSE [NoResult EXCEPT !.kind = "states", !.changed = changed]

\* lines 493-516: what the continuation returns or throws, given the native
\* status code and the states whose handleChange answered true
WaitOutcome(res, changed) ==
  IF res = SCARD_ERROR_TIMEOUT
    THEN [NoResult EXCEPT !.kind = "states"]
    ELSE IF res # 0
      THEN [NoResult EXCEPT !.kind = "error",
                            !.err = ensureSCardSuccess(res, "SCardGetStatusChange")]
      ELSE [NoResult EXCEPT !.kind = "states", !.changed = changed]

\* a continuation that unmarshals whatever the native call returned
ReachesUnmarshal_Always(res) == TRUE

\* lines 493-502: the forEach that calls handleChange is reached only past
\* the early return on the timeout code and past ensureSCardSuccess
ReachesUnmarshal(res) ==
  /\ res # SCARD_ERROR_TIMEOUT
  /\ ensureSCardSuccess(res, "SCardGetStatusChange") = NoErr

\* lines 493-516: the continuation after the await.  handleChange is called
\* on the states, in order, only when the native call succeeded.
GetStatusChangeResume(t) ==
  /\ task[t].pc = "returned"
  /\ \E guess \in [1..task[t].m -> BOOLEAN] :
       LET T == task[t]
           h == [i \in 1..T.m |->
                   handleChange(readerBuf[i], HandledSlice(T.stateBuffer, i - 1),
                                guess[i])]
           ids == [i \in 1..T.m |-> i]
           changed == SelectSeq(ids, LAMBDA i : h[i].changed)
       IN  /\ readerBuf' = IF ReachesUnmarshal(T.res)
                             THEN [i \in Readers |->
                                     IF i <= T.m THEN h[i].buffer ELSE readerBuf[i]]
                             ELSE readerBuf
           /\ task' = [task EXCEPT ![t] = Completed(T, WaitOutcome(T.res, changed))]
  /\ UNCHANGED <<isWin, codec, cardVars, call>>

(***************************************************************************)
(* The synchronous native wrappers, called directly.                       *)
(***************************************************************************)
\* handles a caller may pass as hCard
HCards == {0} \cup CardHandles

\* a wrapper that calls pcsc.symbols.<op> once and hands the status code to
\* ensureSCardSuccess(rc, func)
Thin(op, func, h, rc) ==
  [CardCall(op) EXCEPT !.native = <<Native(IF op = "SCardCardStatus" THEN "SCardStatus"
                                           ELSE op, h, rc)>>,
                       !.err = ensureSCardSuccess(rc, func)]

\* the value a wrapper returns, when it has not thrown
Returning(c, ret) == IF c.err = NoErr THEN [c EXCEPT !.ret = ret] ELSE c

SCardEstablishContext ==
  \E rc \in NativeCodes, ctx \in Contexts :
    /\ call' = Returning(Thin("SCardEstablishContext", "SCardEstablishContext", 0, rc),
                         <<ctx>>)
    /\ UNCHANGED <<isWin, codec, cardVars, monitorVars>>

SCardIsValidContext ==
  \E hContext \in Contexts, rc \in NativeCodes :
    /\ call' = Thin("SCardIsValidContext", "SCardIsValidContext", hContext, rc)
    /\ UNCHANGED <<isWin, codec, cardVars, monitorVars>>

\* SCardCancel(hContext).  Native side: a successful Cancel ends every wait
\* blocked in the native layer on that context with the cancellation code.
SCardCancel ==
  \E hContext \in Contexts, rc \in NativeCodes :
    /\ call' = Thin("SCardCancel", "SCardCancel", hContext, rc)
    /\ task' = [t \in Tasks |->
         IF task[t].ctx = hContext /\ task[t].pc \in {"native", "returned"}
           THEN [task[t] EXCEPT !.cancelCalled = TRUE,
                                !.cancelled = @ \/ (rc = 0 /\ task[t].pc = "native")]
           ELSE task[t]]
    /\ UNCHANGED <<isWin, codec, cardVars, readerBuf>>

SCardReleaseContext ==
  \E hContext \in Contexts, rc \in NativeCodes :
    /\ call' = Thin("SCardReleaseContext", "SCardReleaseContext", hContext, rc)
    /\ UNCHANGED <<isWin, codec, cardVars, monitorVars>>

\* SCardListReaders(hContext, mszGroups, mszReaders): mszReaders is null (<<>>)
\* or a buffer of n bytes; returns the length the native layer wrote
SCardListReaders ==
  \E hContext \in Contexts, rc \in NativeCodes,
     mszReaders \in {<<>>} \cup {<<n>> : n \in 0..MaxOutLen}, needed \in 0..MaxOutLen :
    LET readersLen == IF mszReaders # <<>> THEN SetUint32(mszReaders[1], TRUE)
                      ELSE Zeros(DWORD_SIZE)
        readersLenOut == IF rc = 0 THEN SetUint32(needed, TRUE) ELSE readersLen
        c == Thin("SCardListReaders", "SCardListReaders", hContext, rc)
    IN  /\ call' = Returning([c EXCEPT !.native[1].lenField = GetUint32(readersLen, TRUE)],
                             <<GetUint32(readersLenOut, TRUE)>>)
        /\ UNCHANGED <<isWin, codec, cardVars, monitorVars>>

SCardConnect ==
  \E hContext \in Contexts, rc \in NativeCodes, h \in CardHandles, p \in Protocols :
    /\ call' = Returning(Thin("SCardConnect", "SCardConnect", hContext, rc), <<h, p>>)
    /\ UNCHANGED <<isWin, codec, cardVars, monitorVars>>

\* native.SCardReconnect called directly
CallSCardReconnect ==
  \E hCard \in HCards, rc \in NativeCodes, p \in Protocols :
    /\ call' = Returning(Thin("SCardReconnect", "SCardReconnect", hCard, rc), <<p>>)
    /\ UNCHANGED <<isWin, codec, cardVars, monitorVars>>

\* native.SCardDisconnect called directly
CallSCardDisconnect ==
  \E hCard \in HCards, rc \in NativeCodes :
    /\ call' = Thin("SCardDisconnect", "SCardDisconnect", hCard, rc)
    /\ inTransaction' = IF rc = 0 /\ hCard # 0 /\ hCard = handle THEN FALSE
                        ELSE inTransaction
    /\ UNCHANGED <<isWin, codec, handle, protocol, discOutcome, readerStatus,
                   negotiated, monitorVars>>

\* native.SCardTransmit called directly
CallSCardTransmit ==
  \E hCard \in HCards, sendBuffer \in Commands, recvLength \in 0..MaxExpectedLen,
     rc \in NativeCodes, resp \in Responses :
    LET r == SCardTransmit(hCard, sendBuffer, recvLength, rc, resp)
    IN  /\ NativeTransmitCan(recvLength, rc, resp)
        /\ call' = [CardCall("SCardTransmit") EXCEPT !.L = recvLength,
                      !.native = r.native, !.err = r.err, !.ret = r.ret]
        /\ UNCHANGED <<isWin, codec, cardVars, monitorVars>>

SCardBeginTransaction ==
  \E hCard \in HCards, rc \in NativeCodes :
    /\ call' = Thin("SCardBeginTransaction", "SCardBeginTransaction", hCard, rc)
    /\ inTransaction' = IF rc = 0 /\ hCard # 0 /\ hCard = handle THEN TRUE
                        ELSE inTransaction
    /\ UNCHANGED <<isWin, codec, handle, protocol, discOutcome, readerStatus,
                   negotiated, monitorVars>>

SCardEndTransaction ==
  \E hCard \in HCards, rc \in NativeCodes :
    /\ call' = Thin("SCardEndTransaction", "SCardEndTransaction", hCard, rc)
    /\ inTransaction' = IF rc = 0 /\ hCard # 0 /\ hCard = handle THEN FALSE
                        ELSE inTransaction
    /\ UNCHANGED <<isWin, codec, handle, protocol, discOutcome, readerStatus,
                   negotiated, monitorVars>>

\* SCardCardStatus(hCard, mszReaderNames, rgbAtr): the native layer writes the
\* card status as a little-endian DWORD; it is read back with getUint32(0)
SCardCardStatus ==
  \E hCard \in HCards, rc \in NativeCodes, status \in {0, 1} :
    /\ call' = Returning(Thin("SCardCardStatus", "SCardStatus", hCard, rc),
                         <<GetUint32(SetUint32(status, TRUE), FALSE)>>)
    /\ UNCHANGED <<isWin, codec, cardVars, monitorVars>>

\* SCardControl(hCard, ioctl, dataIn, dataOut): dataOut has n bytes.
\* new DataView(outLen.buffer).setUint32(dataOut.length, 0, true) writes 0 at
\* byte offset dataOut.length of the DWORD_SIZE-byte outLen.
SCardControl ==
  \E hCard \in HCards, rc \in NativeCodes, n \in 0..MaxOutLen, k \in 0..MaxOutLen :
    /\ k = IF rc = 0 THEN k ELSE 0
    /\ rc = 0 => k <= n
    /\ call' = IF n + 4 > DWORD_SIZE
                 THEN [CardCall("SCardControl") EXCEPT !.L = n, !.err = RangeError]
                 ELSE Returning([Thin("SCardControl", "SCardControl", hCard, rc)
                                   EXCEPT !.L = n, !.native[1].k = k], <<k>>)
    /\ UNCHANGED <<isWin, codec, cardVars, monitorVars>>

\* SCardGetAttrib(hCard, attrID, attrib): attrib is null (<<>>) or has n bytes
SCardGetAttrib ==
  \E hCard \in HCards, rc \in NativeCodes,
     attrib \in {<<>>} \cup {<<n>> : n \in 0..MaxOutLen}, k \in 0..MaxOutLen :
    /\ k = IF rc = 0 THEN k ELSE 0
    /\ call' = IF attrib # <<>> /\ attrib[1] + 4 > DWORD_SIZE
                 THEN [CardCall("SCardGetAttrib") EXCEPT !.L = attrib[1],
                                                        !.err = RangeError]
                 ELSE Returning([Thin("SCardGetAttrib", "SCardGetAttrib", hCard, rc)
                                   EXCEPT !.L = OrElse(attrib, 0),
                                          !.native[1].k = k], <<k>>)
    /\ UNCHANGED <<isWin, codec, cardVars, monitorVars>>

SCardSetAttrib ==
  \E hCard \in HCards, rc \in NativeCodes :
    /\ call' = Thin("SCardSetAttrib", "SetAttrib", hCard, rc)
    /\ UNCHANGED <<isWin, codec, cardVars, monitorVars>>

(***************************************************************************)
(* The APDU codec (apdu.ts), applied to inputs drawn from bounded sets.    *)
(***************************************************************************)
\* bytes of the payload of an APDU are 0..MaxDataLen long
MaxDataLen == 2
\* raw buffers given to the decoders are 0..MaxBytesLen long
MaxBytesLen == 7

\* byte values the inputs are built from
ByteValues == {0, 1, 2, 255}

SeqsUpTo(S, n) == UNION {[1..k -> S] : k \in 0..n}

\* toUint8Array(bytes) (buffer-utils.ts): the bytes of a BytesLike, each
\* number taken modulo 256
toUint8Array(bytes) == [i \in 1..Len(bytes) |-> bytes[i] % 256]

\* throw new Error("CommandAPDU: Invalid buffer")
InvalidBuffer == [exc |-> "Error", code |-> 0, func |-> ""]

\* new CommandAPDU(cla, ins, p1, p2, data, le, isExtended)
CommandAPDU(cla, ins, p1, p2, data, le, isExtended) ==
  [cla |-> cla, ins |-> ins, p1 |-> p1, p2 |-> p2,
   data |-> IF data = <<>> THEN <<>> ELSE <<toUint8Array(data[1])>>,
   le |-> le, isExtended |-> isExtended]

\* a decoder that takes any byte after the header for Lc
HasLc_AnyRest(rest) == Len(rest) > 0

\* CommandAPDU.from: if (rest.length > 1), an Lc byte and data follow
HasLc(rest) == Len(rest) > 1

\* a decoder without the final check
Unconsumed_Never(buffer, offset) == FALSE

\* CommandAPDU.from: if (buffer.length != offset) throw
Unconsumed(buffer, offset) == Len(buffer) # offset

\* CommandAPDU.from(bytes): [err, apdu], apdu being <<>> when it throws
CommandAPDUFrom(bytes) ==
  LET buffer == toUint8Array(bytes)
      rest == SubSeq(buffer, 5, Len(buffer))
      hasLc == HasLc(rest)
      lc == rest[1]
      data == IF hasLc THEN << Slice(Tail(rest), 0, lc) >> ELSE <<>>
      offsetLe == IF hasLc THEN 4 + 1 + lc ELSE 4
      hasLe == Len(buffer) > offsetLe
      le == IF hasLe THEN << buffer[offsetLe + 1] >> ELSE <<>>
      offset == IF hasLe THEN offsetLe + 1 ELSE offsetLe
  IN  IF Len(buffer) < 4
        THEN [err |-> InvalidBuffer, apdu |-> <<>>]
        ELSE IF Unconsumed(buffer, offset)
          THEN [err |-> SmartCardException, apdu |-> <<>>]
          ELSE [err |-> NoErr,
                apdu |-> << CommandAPDU(buffer[1], buffer[2], buffer[3],
                                        buffer[4], data, le, FALSE) >>]

\* an encoder that writes the status word low byte first
ResponseAPDUToBytes_LowByteFirst(r) ==
  r.data \o <<r.SW % 256, (r.SW \div 256) % 256>>

\* ResponseAPDU.toBytes()
ResponseAPDUToBytes(r) ==
  r.data \o <<(r.SW \div 256) % 256, r.SW % 256>>

\* ResponseAPDU.from(SW, data): new ResponseAPDU([...buffer, SW >> 8, SW & 0xff])
ResponseAPDUFrom(SW, data) ==
  ResponseAPDU(toUint8Array(toUint8Array(data) \o <<SW \div 256, SW % 256>>))

\* ResponseAPDU.set(sw, data) on the object r
ResponseAPDUSet(r, sw, data) ==
  [r EXCEPT !.SW = sw, !.data = toUint8Array(data)]

\* ResponseAPDU.init(SW, data): (new ResponseAPDU()).set(SW, data), the
\* constructor being given its default bytes = []
ResponseAPDUInit(SW, data) ==
  LET fresh == ResponseAPDU(toUint8Array(<<>>))
  IN  IF fresh.ok THEN ResponseAPDUSet(fresh, SW, data) ELSE fresh

\* inputs: raw buffers, (SW, data) pairs and CommandAPDU objects with the
\* protocol option of toBytes
RawBuffers == SeqsUpTo(ByteValues, MaxBytesLen)
Payloads == SeqsUpTo(ByteValues, MaxDataLen)
StatusWords == {0, 255, 256, 27266, 36864, 65535}
Headers == {<<0, 164, 4, 0>>, <<128, 202, 255, 1>>}
\* payloads of a CommandAPDU: absent, short, or of the longest short length
CommandPayloads == {<<>>} \cup {<<d>> : d \in Payloads} \cup {<< [i \in 1..255 |-> 1] >>}
LeValues == {<<>>, <<0>>, <<1>>, <<255>>, <<256>>}

CodecInputs ==
  {[op |-> "input", kind |-> "bytes", bytes |-> b] : b \in RawBuffers}
  \cup {[op |-> "input", kind |-> "response", SW |-> sw, data |-> d] :
          sw \in StatusWords, d \in Payloads}
  \cup {[op |-> "input", kind |-> "command",
         apdu |-> CommandAPDU(h[1], h[2], h[3], h[4], d, le, x),
         protocol |-> p] :
          h \in Headers, d \in CommandPayloads, le \in LeValues, x \in BOOLEAN,
          p \in {<<>>} \cup {<<q>> : q \in Protocols}}

codecFrame == <<isWin, cardVars, call, monitorVars>>

\* new ResponseAPDU(bytes)
ResponseDecode ==
  /\ codec.op = "input" /\ codec.kind = "bytes"
  /\ codec' = [op |-> "ResponseAPDU", bytes |-> codec.bytes,
               out |-> ResponseAPDU(toUint8Array(codec.bytes))]
  /\ UNCHANGED codecFrame

\* CommandAPDU.from(bytes)
CommandDecode ==
  /\ codec.op = "input" /\ codec.kind = "bytes"
  /\ codec' = [op |-> "CommandAPDU.from", bytes |-> codec.bytes,
               out |-> CommandAPDUFrom(codec.bytes)]
  /\ UNCHANGED codecFrame

\* new ResponseAPDU(ResponseAPDU.from(SW, data).toBytes())
ResponseRoundTrip ==
  /\ codec.op = "input" /\ codec.kind = "response"
  /\ LET built == ResponseAPDUFrom(codec.SW, codec.data)
         encoded == ResponseAPDUToBytes(built)
     IN  codec' = [op |-> "ResponseAPDU.toBytes", SW |-> codec.SW,
                   data |-> codec.data, built |-> built, encoded |-> encoded,
                   decoded |-> ResponseAPDU(toUint8Array(encoded))]
  /\ UNCHANGED codecFrame

\* ResponseAPDU.init(SW, data).toBytes()
ResponseInit ==
  /\ codec.op = "input" /\ codec.kind = "response"
  /\ LET built == ResponseAPDUInit(codec.SW, codec.data)
     IN  codec' = [op |-> "ResponseAPDU.init", SW |-> codec.SW,
                   data |-> codec.data, built |-> built,
                   encoded |-> IF built.ok THEN ResponseAPDUToBytes(built)
                               ELSE <<>>]
  /\ UNCHANGED codecFrame

\* CommandAPDU.from(apdu.toBytes({protocol}))
CommandRoundTrip ==
  /\ codec.op = "input" /\ codec.kind = "command"
  /\ LET encoded == toBytes(codec.apdu, codec.protocol)
     IN  codec' = [op |-> "CommandAPDU.toBytes", apdu |-> codec.apdu,
                   protocol |-> codec.protocol, encoded |-> encoded,
                   decoded |-> CommandAPDUFrom(encoded)]
  /\ UNCHANGED codecFrame

(***************************************************************************)
(* Specifications.                                                         *)
(***************************************************************************)
\* The card has been connected: new FFICard(reader, handle, protocol) with the
\* handle and protocol of a successful SCardConnect.  No wait is pending.
Init ==
  /\ isWin \in BOOLEAN
  /\ handle \in CardHandles
  /\ protocol \in Protocols
  /\ inTransaction = FALSE
  /\ discOutcome = "none"
  /\ readerStatus = "connected"
  /\ negotiated = [protocol |-> protocol, by |-> "SCardConnect"]
  /\ codec = NoCodec
  /\ call = NoCall
  /\ readerBuf = [i \in Readers |-> <<0, 16>>]
  /\ task = [t \in Tasks |-> IdleTask]

\* the card session and the synchronous wrappers
NextCard ==
  \/ Transmit
  \/ TransmitAPDU
  \/ Reconnect
  \/ Disconnect
  \/ SCardEstablishContext
  \/ SCardIsValidContext
  \/ SCardCancel
  \/ SCardReleaseContext
  \/ SCardListReaders
  \/ SCardConnect
  \/ CallSCardReconnect
  \/ CallSCardDisconnect
  \/ CallSCardTransmit
  \/ SCardBeginTransaction
  \/ SCardEndTransaction
  \/ SCardCardStatus
  \/ SCardControl
  \/ SCardGetAttrib
  \/ SCardSetAttrib

SpecCard == Init /\ [][NextCard]_vars

\* the APDU codec: a connected card, no call made, and one input to the codec
InitApdu ==
  /\ isWin = FALSE
  /\ handle \in CardHandles
  /\ protocol = 1
  /\ inTransaction = FALSE
  /\ discOutcome = "none"
  /\ readerStatus = "connected"
  /\ negotiated = [protocol |-> protocol, by |-> "SCardConnect"]
  /\ codec \in CodecInputs
  /\ call = NoCall
  /\ readerBuf = [i \in Readers |-> <<0, 16>>]
  /\ task = [t \in Tasks |-> IdleTask]

NextApdu ==
  \/ ResponseDecode
  \/ CommandDecode
  \/ ResponseRoundTrip
  \/ ResponseInit
  \/ CommandRoundTrip

SpecApdu == InitApdu /\ [][NextApdu]_vars

\* the reader-state monitor
NextMonitor ==
  \/ \E t \in Tasks : GetStatusChangeCall(t)
  \/ \E t \in Tasks : NativeGetStatusChange(t)
  \/ \E t \in Tasks : GetStatusChangeResume(t)
  \/ SCardCancel

SpecMonitor == Init /\ [][NextMonitor]_vars

\* The native layer ends every call it has accepted (a cancelled one at once,
\* any other by its timeout), and the event loop runs every continuation.
FairSpecMonitor ==
  /\ SpecMonitor
  /\ \A t \in Tasks : WF_vars(NativeGetStatusChange(t))
  /\ \A t \in Tasks : WF_vars(GetStatusChangeResume(t))

(***************************************************************************)
(* Properties.                                                             *)
(***************************************************************************)
\* the states of a wait whose event bitmask in the native output differs from
\* the one marshalled into the call, in input order
ExpectedChanged(T) ==
  SelectSeq([i \in 1..T.m |-> i],
            LAMBDA i : RecordAt(T.stateBuffer, i - 1)[EVENT_STATE + 1]
                         # RecordAt(T.inBuf, i - 1)[EVENT_STATE + 1])

\* C1: when the native GetStatusChange succeeds over n >= 1 states, the wait
\* returns exactly the states whose bitmask in the native output differs from
\* its value before the call, in input order, whatever their index.
C1_ReturnsExactlyTheChanged ==
  [][\A t \in Tasks :
       (task[t].pc = "returned" /\ task[t].res = 0 /\ task[t].m >= 1
          /\ task'[t].pc = "done")
       => /\ task'[t].result.kind = "states"
          /\ task'[t].result.changed = ExpectedChanged(task[t])]_vars

\* C2: a wait whose native call returned the timeout code completes normally
\* with the empty sequence and no error, for any number of watched states.
C2_TimeoutYieldsEmpty ==
  \A t \in Tasks :
    (task[t].pc = "done" /\ task[t].res = SCARD_ERROR_TIMEOUT)
    => task[t].result = [kind |-> "states", changed |-> <<>>, err |-> NoErr]

C2_Witness ==
  \E t \in Tasks :
    /\ task[t].pc = "done"
    /\ task[t].res = SCARD_ERROR_TIMEOUT
    /\ task[t].m = MaxReaders
    /\ task[t].result.kind = "states"

\* C3: at most one native GetStatusChange call is in flight per Context.
C3_OneWaitInFlightPerContext ==
  \A c \in Contexts :
    Cardinality({t \in Tasks : task[t].pc = "native" /\ task[t].ctx = c}) <= 1

\* the wait of t has failed with the native cancellation code
FailedCancelled(t) ==
  /\ task[t].pc = "done"
  /\ task[t].result.kind = "error"
  /\ task[t].result.err = [exc |-> "PCSCException", code |-> SCARD_E_CANCELLED,
                           func |-> "SCardGetStatusChange"]

\* C4 as stated: a wait that was pending when SCardCancel was called on its
\* context completes by failing with a cancellation error, never with states
\* and never with the empty sequence.
C4_CancelCalledWaitFails ==
  \A t \in Tasks : (task[t].pc = "done" /\ task[t].cancelCalled) => FailedCancelled(t)

\* C4, amended: a wait whose native call was still blocked when a SCardCancel
\* on its context succeeded eventually completes, and completes by failing
\* with the native cancellation code.
C4_CancelledWaitFails ==
  /\ [](\A t \in Tasks : (task[t].pc = "done" /\ task[t].cancelled) => FailedCancelled(t))
  /\ \A t \in Tasks :
       (task[t].pc = "native" /\ task[t].cancelled) ~> FailedCancelled(t)

C4_Witness ==
  \E t \in Tasks : task[t].cancelled /\ FailedCancelled(t)

\* C5: a native wrapper calls the native function once and, when it returns a
\* non-zero code, throws a PCSCException carrying that code and the name of
\* the native function; the timeout code of a wait is the only exception.
C5_WrappersSurfaceNativeErrors ==
  /\ Len(call.native) <= 1
  /\ \A i \in 1..Len(call.native) :
       call.native[i].rc # 0
       => call.err = [exc |-> "PCSCException", code |-> call.native[i].rc,
                      func |-> call.native[i].fn]
  /\ \A t \in Tasks :
       (task[t].pc = "done" /\ task[t].res \notin {0, SCARD_ERROR_TIMEOUT})
       => task[t].result.err = [exc |-> "PCSCException", code |-> task[t].res,
                                func |-> "SCardGetStatusChange"]

\* C6: once FFICard.disconnect has called the native disconnect, the handle
\* and the protocol are 0, whether it succeeded or failed, and stay 0.
C6_DisconnectIsTerminal ==
  discOutcome # "none" => (handle = 0 /\ protocol = 0)

C6_Witness ==
  /\ discOutcome = "error"
  /\ call.op = "reconnect"
  /\ handle = 0

\* C7: with a zero handle, FFICard.transmit and FFICard.reconnect fail with a
\* local error, make no native call and leave handle and protocol unchanged.
C7_ZeroHandleFailsLocally ==
  (call.op \in {"transmit", "reconnect"} /\ call.hBefore = 0)
  => /\ call.err = SmartCardException
     /\ call.native = <<>>
     /\ handle = call.hBefore
     /\ protocol = call.pBefore

C7_Witness ==
  /\ call.op = "reconnect"
  /\ call.hBefore = 0
  /\ call.err = SmartCardException

\* C8: with a zero handle, FFICard.transmitAPDU fails with a local error and
\* the native Transmit is never invoked with a zero card handle.
C8_TransmitAPDUNeedsHandle ==
  (call.op \in {"transmit", "transmitAPDU"} /\ call.hBefore = 0)
  => /\ call.err = SmartCardException
     /\ call.native = <<>>

\* C9: a disconnect of a card on which a transaction is begun and not ended
\* surfaces an error to the caller.
C9_OpenTransactionDisconnectFails ==
  (call.op = "disconnect" /\ call.inTx)
  => (call.err # NoErr \/ call.promise = "rejected")

\* C10: the receive buffer FFICard.transmit hands to the native Transmit has
\* exactly L + 2 bytes, and the bytes returned are the first k bytes of it,
\* k being the length the native call reported.
C10_ReceiveBufferIsLPlus2 ==
  (call.op = "transmit" /\ call.native # <<>>)
  => /\ call.native[1].bufLen = call.L + 2
     /\ call.native[1].rc = 0
          => /\ Len(call.ret) = call.native[1].k
             /\ call.ret = SubSeq(call.native[1].recv, 1, call.native[1].k)

\* C11: FFICard.isConnected is true exactly when the card is connected (handle
\* not 0 and reader status "connected"), and false once the card has been
\* disconnected.
C11_IsConnectedIffConnected ==
  /\ isConnected <=> (handle # 0 /\ readerStatus = "connected")
  /\ discOutcome # "none" => ~isConnected

\* C12: decoding the encoding of a ResponseAPDU built from (data, sw) yields
\* the same data and the same SW, and the encoded form is data followed by
\* the high byte then the low byte of SW.
C12_ResponseRoundTrip ==
  codec.op = "ResponseAPDU.toBytes"
  => /\ codec.built.ok
     /\ codec.encoded
          = codec.data \o <<codec.SW \div 256, codec.SW % 256>>
     /\ codec.decoded = [ok |-> TRUE, SW |-> codec.SW, data |-> codec.data]

C12_Witness ==
  /\ codec.op = "ResponseAPDU.toBytes"
  /\ Len(codec.data) = MaxDataLen
  /\ codec.SW = 36864
  /\ codec.decoded.ok
  /\ codec.decoded.SW = 36864

\* C13: decoding a ResponseAPDU fails exactly when the input has fewer than 2
\* bytes; for an input of n >= 2 bytes SW is its last two bytes read
\* big-endian and data is its first n - 2 bytes.
C13_ResponseDecode ==
  codec.op = "ResponseAPDU"
  => LET n == Len(codec.bytes)
     IN  /\ codec.out.ok <=> n >= 2
         /\ n >= 2 => /\ codec.out.SW = 256 * codec.bytes[n - 1] + codec.bytes[n]
                      /\ codec.out.data = SubSeq(codec.bytes, 1, n - 2)
                      /\ Len(codec.out.data) = n - 2

C13_Witness ==
  /\ codec.op = "ResponseAPDU"
  /\ codec.bytes = <<1, 255>>
  /\ codec.out = [ok |-> TRUE, SW |-> 511, data |-> <<>>]

\* the payload of a CommandAPDU, absent counting as empty
PayloadOf(apdu) == OrElse(apdu.data, <<>>)

\* C14: for a CommandAPDU with data absent or of 0..255 bytes, le absent or in
\* 0..255 and isExtended false, decoding its encoding under protocol 1
\* succeeds and reproduces cla, ins, p1, p2 and the data bytes.
C14_CommandRoundTripT1 ==
  (/\ codec.op = "CommandAPDU.toBytes"
   /\ codec.protocol = <<1>>
   /\ ~codec.apdu.isExtended
   /\ Len(PayloadOf(codec.apdu)) <= 255
   /\ OrElse(codec.apdu.le, 0) \in 0..255)
  => /\ codec.decoded.err = NoErr
     /\ codec.decoded.apdu # <<>>
     /\ LET d == codec.decoded.apdu[1]
        IN  /\ <<d.cla, d.ins, d.p1, d.p2>>
                 = <<codec.apdu.cla, codec.apdu.ins, codec.apdu.p1, codec.apdu.p2>>
            /\ PayloadOf(d) = PayloadOf(codec.apdu)

C14_Witness ==
  /\ codec.op = "CommandAPDU.toBytes"
  /\ codec.protocol = <<1>>
  /\ ~codec.apdu.isExtended
  /\ Len(PayloadOf(codec.apdu)) = 255
  /\ codec.apdu.le = <<255>>
  /\ codec.decoded.err = NoErr
  /\ Len(PayloadOf(codec.decoded.apdu[1])) = 255

\* C15: CommandAPDU.from accepts an input of n bytes if and only if n = 4, or
\* n = 5, or n >= 6 and n is 5 + Lc or 6 + Lc, Lc being the fifth byte; in
\* every other case, inputs of fewer than 4 bytes included, it fails with an
\* error and returns no APDU.
C15_CommandDecodeAccepts ==
  codec.op = "CommandAPDU.from"
  => LET n == Len(codec.bytes)
         accepted == codec.out.err = NoErr
     IN  /\ accepted <=> \/ n = 4
                         \/ n = 5
                         \/ /\ n >= 6
                            /\ n \in {5 + codec.bytes[5], 6 + codec.bytes[5]}
         /\ accepted <=> codec.out.apdu # <<>>
         /\ ~accepted => codec.out.err.exc \in {"Error", "SmartCardException"}

C15_Witness ==
  /\ codec.op = "CommandAPDU.from"
  /\ Len(codec.bytes) = 7
  /\ codec.bytes[5] = 1
  /\ codec.out.err = NoErr
  /\ codec.out.apdu[1].data = << <<2>> >>
  /\ codec.out.apdu[1].le = <<255>>

\* C16: under protocol 0 (T=0) the encoding of any CommandAPDU has no 3-byte
\* length field and no Le field after data: it is header, Lc byte, data when
\* there is data; header, Le byte when there is no data and le > 0; the
\* 4-byte header otherwise.
C16_T0Encoding ==
  (codec.op = "CommandAPDU.toBytes" /\ codec.protocol = <<0>>)
  => LET a == codec.apdu
         header == <<a.cla, a.ins, a.p1, a.p2>>
         lc == Len(PayloadOf(a))
         le == OrElse(a.le, 0)
     IN  codec.encoded
           = IF lc > 0 THEN header \o <<lc % 256>> \o PayloadOf(a)
             ELSE IF le > 0 THEN header \o <<le % 256>>
             ELSE header

C16_Witness ==
  /\ codec.op = "CommandAPDU.toBytes"
  /\ codec.protocol = <<0>>
  /\ codec.apdu.isExtended
  /\ codec.apdu.data = << <<1, 2>> >>
  /\ codec.apdu.le = <<255>>
  /\ Len(codec.encoded) = 7

\* C17: after a successful native GetStatusChange over n states, the bytes
\* handed to the handleChange of the state at index i are exactly the i-th
\* record of the native output buffer, for every i in 0..n-1.
C17_EachStateGetsItsRecord ==
  [][\A t \in Tasks :
       (task[t].pc = "returned" /\ task[t].res = 0 /\ task'[t].pc = "done")
       => \A i \in 0..(task[t].m - 1) :
            HandledSlice(task[t].stateBuffer, i) = RecordAt(task[t].stateBuffer, i)]_vars

\* the continuation of the wait of t runs in this step
Resumes(t) == task[t].pc = "returned" /\ task'[t].pc = "done"

\* C18: a wait that ends with the timeout code or any other non-success code
\* leaves every reader state unchanged; reader states change only in the
\* continuation of a wait whose native call returned success.
C18_FailedWaitChangesNoState ==
  [][/\ \A t \in Tasks : (Resumes(t) /\ task[t].res # 0) => readerBuf' = readerBuf
     /\ readerBuf' # readerBuf => \E t \in Tasks : Resumes(t) /\ task[t].res = 0]_vars

C18_Witness ==
  \E t \in Tasks :
    /\ task[t].pc = "done"
    /\ task[t].res = SCARD_E_INVALID_HANDLE
    /\ task[t].result.kind = "error"
    /\ task[t].m = MaxReaders
    /\ readerBuf[1] = <<0, 32>>

\* C19: the bytes FFICard.transmitAPDU passes to the native Transmit on a
\* connected card are the command encoded with the protocol negotiated last
\* (at connect, or by the most recent successful reconnect); a reconnect whose
\* native call fails leaves the stored protocol and handle unchanged.
C19_EncodesWithNegotiatedProtocol ==
  /\ (call.op = "transmitAPDU" /\ call.hBefore # 0)
     => /\ call.native # <<>>
        /\ call.native[1].send = toBytes(call.apdu[1], <<negotiated.protocol>>)
  /\ (call.op = "reconnect" /\ call.native # <<>> /\ call.native[1].rc # 0)
     => /\ handle = call.hBefore
        /\ protocol = call.pBefore
        /\ protocol = negotiated.protocol

C19_Witness ==
  /\ call.op = "transmitAPDU"
  /\ call.hBefore # 0
  /\ negotiated = [protocol |-> 0, by |-> "SCardReconnect"]
  /\ call.apdu[1].data # <<>>
  /\ call.apdu[1].le # <<>>
  /\ call.native[1].rc = 0

\* C20: every FFICard.disconnect is followed by reader.waitForChange, with
\* handle and protocol cleared: when the native disconnect succeeded, when it
\* reported an error, and when the handle was already 0 (no native call then).
C20_DisconnectReReadsStatus ==
  call.op = "disconnect"
  => /\ call.waited
     /\ handle = 0
     /\ protocol = 0
     /\ call.hBefore = 0 => call.native = <<>>

\* C22: with a non-empty output buffer of any length SCardControl and
\* SCardGetAttrib write that buffer's length into the length field handed to
\* the native call, fail only when the native call returns a non-success
\* code, and otherwise return the output length the native call reported.
C22_OutputLengthPassThrough ==
  (call.op \in {"SCardControl", "SCardGetAttrib"} /\ call.L > 0)
  => /\ call.native # <<>>
     /\ call.native[1].lenField = call.L
     /\ call.err # NoErr <=> call.native[1].rc # 0
     /\ call.native[1].rc = 0 => call.ret = <<call.native[1].k>>

\* C21: for every 16-bit SW and every byte sequence data, defaults included,
\* ResponseAPDU.init(SW, data) never fails and returns a ResponseAPDU whose SW
\* and data are the arguments and whose encoding is data, SW high byte, SW
\* low byte.
C21_ResponseInitBuilds ==
  codec.op = "ResponseAPDU.init"
  => /\ codec.built = [ok |-> TRUE, SW |-> codec.SW, data |-> codec.data]
     /\ codec.encoded = codec.data \o <<codec.SW \div 256, codec.SW % 256>>

====
